---- MODULE Spec2Model ----
(***************************************************************************)
(* State-machine model of the Solana claims-registry client:               *)
(*   backend/test_runner.py  initialize, add_claim, get_claims, main       *)
(*   backend/bio_hack.py     BioHackClient.add_claim                       *)
(* Every coroutine is a frame on a call stack; every await of the remote   *)
(* service is one step whose answer is chosen nondeterministically.        *)
(***************************************************************************)
EXTENDS Integers, Sequences, FiniteSets, TLC

VARIABLES stack, handles, remoteBh, outcome

vars == <<stack, handles, remoteBh, outcome>>

(***************************************************************************)
(* Program constants                                                       *)
(***************************************************************************)
MAX_RETRIES == 3
RETRY_DELAY == 2
\* MINIMUM_SOL = 0.000005, written as 5 millionths of a SOL
MINIMUM_SOL_MICRO == 5
LAMPORTS_PER_SOL == 1000000000
MICRO_PER_SOL == 1000000
CLAIM_COUNT_LIMIT == 1000
URL_LEN_LIMIT == 1000

(***************************************************************************)
(* Bounds of the model                                                     *)
(***************************************************************************)
MaxBlockhash == 2
MaxStrLen == 3
MaxRecords == 2

(***************************************************************************)
(* Byte helpers                                                            *)
(***************************************************************************)
Fill(n, b) == [k \in 1..n |-> b]

\* data[a:b] of Python: indices a..b-1 (0-based), clipped to the buffer
Slice(data, a, b) ==
    LET hi == IF b < Len(data) THEN b ELSE Len(data)
    IN  IF a >= hi THEN <<>> ELSE [k \in 1..(hi - a) |-> data[a + k]]

\* the wallet's public key and the derived registry address, as 32 bytes
WalletPubkey == Fill(32, 7)
PdaPubkey == Fill(32, 9)
SystemProgramPubkey == Fill(32, 0)

\* sol_balance = balance_resp.value / 1_000_000_000 ; sol_balance < MINIMUM_SOL
BelowMinimumAlt(lamports) ==
    lamports <= MINIMUM_SOL_MICRO * (LAMPORTS_PER_SOL \div MICRO_PER_SOL)

BelowMinimum(lamports) ==
    lamports < MINIMUM_SOL_MICRO * (LAMPORTS_PER_SOL \div MICRO_PER_SOL)

\* "BlockhashNotFound" in str(e) and attempt < MAX_RETRIES
ShouldRetryAlways(e, attempt) ==
    e = "BlockhashNotFound" /\ attempt <= MAX_RETRIES

ShouldRetryOnce(e, attempt) ==
    e = "BlockhashNotFound" /\ attempt < MAX_RETRIES - 1

ShouldRetryAnyError(e, attempt) ==
    attempt < MAX_RETRIES

ShouldRetry(e, attempt) ==
    e = "BlockhashNotFound" /\ attempt < MAX_RETRIES

(***************************************************************************)
(* Codec                                                                   *)
(***************************************************************************)
\* n.to_bytes(4, "little")
U32LE(n) == <<n % 256, (n \div 256) % 256, (n \div 65536) % 256, (n \div 16777216) % 256>>

\* s.encode("utf-8") for a string given as its sequence of code points; a
\* long string is encoded half by half, which gives the same bytes
RECURSIVE Utf8Encode(_)
Utf8Encode(s) ==
    IF s = <<>> THEN <<>>
    ELSE IF Len(s) = 1
    THEN LET c == s[1]
         IN  IF c < 128 THEN <<c>>
             ELSE IF c < 2048 THEN <<192 + (c \div 64), 128 + (c % 64)>>
             ELSE IF c < 65536
                  THEN <<224 + (c \div 4096), 128 + ((c \div 64) % 64), 128 + (c % 64)>>
             ELSE <<240 + (c \div 262144), 128 + ((c \div 4096) % 64),
                    128 + ((c \div 64) % 64), 128 + (c % 64)>>
    ELSE LET h == Len(s) \div 2
         IN  Utf8Encode(SubSeq(s, 1, h)) \o Utf8Encode(SubSeq(s, h + 1, Len(s)))

encode_string(s) ==
    LET encoded == Utf8Encode(s) IN U32LE(Len(encoded)) \o encoded

\* int.from_bytes(b, "little") of a 4-byte slice
U32FromLE(b) == b[1] + 256 * (b[2] + 256 * (b[3] + 256 * b[4]))

\* int.from_bytes(b, "little", signed=True) of an 8-byte slice
I64FromLE(b) ==
    IF b[8] < 128
    THEN b[1] + 256 * (b[2] + 256 * (b[3] + 256 * (b[4] + 256 * (b[5]
           + 256 * (b[6] + 256 * (b[7] + 256 * b[8]))))))
    ELSE -1 - ((255 - b[1]) + 256 * ((255 - b[2]) + 256 * ((255 - b[3])
           + 256 * ((255 - b[4]) + 256 * ((255 - b[5]) + 256 * ((255 - b[6])
           + 256 * ((255 - b[7]) + 256 * (255 - b[8]))))))))

\* bytes.hex(): two hexadecimal digits per byte
Hex(b) == [k \in 1..(2 * Len(b)) |->
             IF k % 2 = 1 THEN b[(k + 1) \div 2] \div 16 ELSE b[k \div 2] % 16]

\* Pubkey(b) accepts exactly 32 bytes
PubkeyOk(b) == Len(b) = 32

IsCont(x) == x >= 128 /\ x <= 191
Utf8Invalid == <<-1>>

\* Utf8Invalid if either part is, else the two parts joined
Utf8Join(l, r) == IF Utf8Invalid \in {l, r} THEN Utf8Invalid ELSE l \o r

\* bytes.decode("utf-8"): the code points, or Utf8Invalid for UnicodeDecodeError.
\* A long buffer is cut at a byte that starts a character (the first byte past
\* the middle that is not a continuation byte; four continuation bytes in a
\* row are never valid) and decoded part by part.
RECURSIVE Utf8Decode(_)
Utf8Decode(b) ==
    IF b = <<>> THEN <<>>
    ELSE IF Len(b) > 8
    THEN LET n == Len(b)
             mid == n \div 2
             cuts == {p \in (mid + 1)..(mid + 4) : ~IsCont(b[p])}
         IN  IF cuts = {} THEN Utf8Invalid
             ELSE LET p == CHOOSE q \in cuts : \A r \in cuts : q <= r
                  IN  Utf8Join(Utf8Decode(SubSeq(b, 1, p - 1)), Utf8Decode(SubSeq(b, p, n)))
    ELSE LET b1 == b[1]
             n == Len(b)
             width == IF b1 < 128 THEN 1
                      ELSE IF b1 >= 194 /\ b1 <= 223 THEN 2
                      ELSE IF b1 >= 224 /\ b1 <= 239 THEN 3
                      ELSE IF b1 >= 240 /\ b1 <= 244 THEN 4
                      ELSE 0
             lo2 == IF b1 = 224 THEN 160 ELSE IF b1 = 240 THEN 144 ELSE 128
             hi2 == IF b1 = 237 THEN 159 ELSE IF b1 = 244 THEN 143 ELSE 191
             ok == /\ width > 0
                   /\ n >= width
                   /\ (width >= 2 => b[2] >= lo2 /\ b[2] <= hi2)
                   /\ (width >= 3 => IsCont(b[3]))
                   /\ (width >= 4 => IsCont(b[4]))
             cp == IF width = 1 THEN b1
                   ELSE IF width = 2 THEN (b1 - 192) * 64 + (b[2] - 128)
                   ELSE IF width = 3
                        THEN (b1 - 224) * 4096 + (b[2] - 128) * 64 + (b[3] - 128)
                   ELSE (b1 - 240) * 262144 + (b[2] - 128) * 4096
                        + (b[3] - 128) * 64 + (b[4] - 128)
         IN  IF ~ok THEN Utf8Invalid
             ELSE Utf8Join(<<cp>>, Utf8Decode(SubSeq(b, width + 1, n)))

encode_option_pubkey(present, pubkey) ==
    IF ~present THEN <<0>> ELSE <<1>> \o pubkey

(***************************************************************************)
(* Instruction construction                                                *)
(***************************************************************************)
AccountMeta(pk, s, w) == [pubkey |-> pk, is_signer |-> s, is_writable |-> w]

NoInstruction == [built |-> FALSE, data |-> <<>>, accounts |-> <<>>]

build_initialize_instruction(creator, initial_owner) ==
    [built |-> TRUE,
     data |-> <<175, 175, 109, 31, 13, 152, 155, 237>>
              \o encode_option_pubkey(TRUE, initial_owner),
     accounts |-> << AccountMeta(PdaPubkey, FALSE, TRUE),
                     AccountMeta(creator, TRUE, TRUE),
                     AccountMeta(SystemProgramPubkey, FALSE, FALSE) >>]

\* the check of line 109-110: the builder raises instead of building
add_claim_hash_ok(data_hash) == Len(data_hash) = 32

build_add_claim_instruction(creator, claim_id, json_url, data_hash) ==
    [built |-> TRUE,
     data |-> <<70, 114, 85, 106, 66, 244, 46, 99>>
              \o encode_string(claim_id) \o encode_string(json_url) \o data_hash,
     accounts |-> << AccountMeta(PdaPubkey, FALSE, TRUE),
                     AccountMeta(creator, TRUE, TRUE) >>]

build_get_claims_instructionWritableRegistry(requester) ==
    [built |-> TRUE,
     data |-> <<137, 77, 151, 53, 39, 5, 110, 188>>,
     accounts |-> << AccountMeta(PdaPubkey, FALSE, TRUE),
                     AccountMeta(requester, TRUE, TRUE) >>]

build_get_claims_instruction(requester) ==
    [built |-> TRUE,
     data |-> <<137, 77, 151, 53, 39, 5, 110, 188>>,
     accounts |-> << AccountMeta(PdaPubkey, FALSE, FALSE),
                     AccountMeta(requester, TRUE, TRUE) >>]

(***************************************************************************)
(* Frames                                                                  *)
(***************************************************************************)
NewFrame(fn, claim_id, json_url, data_hash) ==
    [fn |-> fn, pc |-> "start", client |-> 0, exc |-> "none", ret |-> "none",
     attempt |-> 0, delays |-> 0, slept |-> 0, blockhash |-> 0,
     instr |-> NoInstruction, log |-> <<>>,
     claim_id |-> claim_id, json_url |-> json_url, data_hash |-> data_hash,
     data |-> <<>>, offset |-> 0, num_claims |-> 0, i |-> 0,
     claims |-> <<>>, diag |-> <<>>, reads |-> <<>>]

Running == Len(stack) > 0
Top == stack[Len(stack)]
SetTop(f) == [stack EXCEPT ![Len(stack)] = f]
Ev(op, res, val) == [op |-> op, res |-> res, val |-> val]
Logged(f, op, res, val) == [f EXCEPT !.log = Append(@, Ev(op, res, val))]
Raise(f, e) == [f EXCEPT !.exc = e, !.pc = "except"]

RpcFns == {"initialize", "add_claim", "get_claims"}
SubmitFns == {"initialize", "add_claim"}

\* inputs of the model
Balances == {0, 4999, 5000, 5001}
ClaimIds == {<<>>, <<99>>}
JsonUrls == {<<>>, <<104>>}
DataHashes == {Fill(31, 0), Fill(32, 0), Fill(33, 0)}
\* "claim_001", "https://example.com/claim.json" shortened to "https://e.c"
MainClaimId == <<99, 108, 97, 105, 109, 95, 48, 48, 49>>
MainJsonUrl == <<104, 116, 116, 112, 115, 58, 47, 47, 101, 46, 99>>
MainDataHash == Fill(32, 0)

(***************************************************************************)
(* Account snapshots the remote service may hand to get_claims             *)
(***************************************************************************)
\* a signed 64-bit timestamp as the registry program stores it
I64LE(v) ==
    LET u == IF v >= 0 THEN v ELSE -1 - v
        lo == U32LE(u)
    IN  IF v >= 0 THEN lo \o Fill(4, 0)
        ELSE <<255 - lo[1], 255 - lo[2], 255 - lo[3], 255 - lo[4]>> \o Fill(4, 255)

\* url bytes, the url_len the record declares, and its timestamp
RecordKinds ==
    { [url |-> <<104>>, declared |-> 1, ts |-> 5],
      [url |-> <<255>>, declared |-> 1, ts |-> 5],
      [url |-> <<104>>, declared |-> URL_LEN_LIMIT + 1, ts |-> 5],
      [url |-> <<195, 169>>, declared |-> 2, ts |-> -2] }

\* [32B claim_id_hash][4B url_len][url][32B data_hash][32B creator][8B created_at]
RecordBytes(r, idx) ==
    Fill(32, 16 + idx) \o U32LE(r.declared) \o r.url \o Fill(32, 32 + idx)
      \o WalletPubkey \o I64LE(r.ts)

RECURSIVE RecordsBytes(_, _)
RecordsBytes(rs, idx) ==
    IF idx > Len(rs) THEN <<>>
    ELSE RecordBytes(rs[idx], idx) \o RecordsBytes(rs, idx + 1)

\* [8B discriminator][32B owner][1B + (0|32)B pending_owner][4B claim_count][records]
AccountBytes(tag, count, rs) ==
    Fill(8, 1) \o WalletPubkey
      \o (IF tag = 0 THEN <<0>> ELSE <<1>> \o Fill(32, 3))
      \o U32LE(count) \o RecordsBytes(rs, 1)

RecordLists == UNION {[1..n -> RecordKinds] : n \in 0..MaxRecords}

WholeBuffers ==
    {AccountBytes(tag, c, rs) :
       tag \in {0, 1}, rs \in RecordLists,
       c \in {0, 1, MaxRecords, CLAIM_COUNT_LIMIT, CLAIM_COUNT_LIMIT + 1}}

BaseBuffer ==
    AccountBytes(1, MaxRecords,
                 [k \in 1..MaxRecords |->
                    IF k = 1 THEN [url |-> <<195, 169>>, declared |-> 2, ts |-> -2]
                    ELSE [url |-> <<104>>, declared |-> 1, ts |-> 5]])

TruncatedBuffers == {SubSeq(BaseBuffer, 1, n) : n \in 0..Len(BaseBuffer)}

\* three records, the first with url bytes that are not UTF-8
SkipBuffer ==
    AccountBytes(1, 3, << [url |-> <<255>>, declared |-> 1, ts |-> 5],
                          [url |-> <<104>>, declared |-> 1, ts |-> 5],
                          [url |-> <<104>>, declared |-> 1, ts |-> 5] >>)

\* SkipBuffer whole, and cut anywhere in its third record
SkipBuffers ==
    {SubSeq(SkipBuffer, 1, n) :
       n \in (Len(SkipBuffer) - Len(RecordBytes([url |-> <<104>>, declared |-> 1,
                                                  ts |-> 5], 3)))..Len(SkipBuffer)}

AccountBuffers == WholeBuffers \cup TruncatedBuffers \cup SkipBuffers

(***************************************************************************)
(* Common prologue of initialize / add_claim / get_claims                  *)
(***************************************************************************)
\* client = AsyncClient(RPC_ENDPOINT, commitment=Confirmed)
OpenClient ==
    /\ Running /\ Top.fn \in RpcFns /\ Top.pc = "start"
    /\ handles' = Append(handles, 0)
    /\ stack' = SetTop([Top EXCEPT !.client = Len(handles) + 1, !.pc = "connect"])
    /\ UNCHANGED <<remoteBh, outcome>>

\* if not await client.is_connected(): raise ConnectionError
CheckConnected ==
    /\ Running /\ Top.fn \in RpcFns /\ Top.pc = "connect"
    /\ \E ok \in BOOLEAN :
         LET f == Logged(Top, "is_connected", IF ok THEN "ok" ELSE "fail", 0)
         IN  stack' = SetTop(IF ok THEN [f EXCEPT !.pc = "wallet"]
                                   ELSE Raise(f, "ConnectionError"))
    /\ UNCHANGED <<handles, remoteBh, outcome>>

\* wallet = load_wallet()
LoadWallet ==
    /\ Running /\ Top.fn \in RpcFns /\ Top.pc = "wallet"
    /\ \E ok \in BOOLEAN :
         stack' = SetTop(IF ok THEN [Top EXCEPT !.pc = "balance"]
                               ELSE Raise(Top, "RuntimeError"))
    /\ UNCHANGED <<handles, remoteBh, outcome>>

\* balance_resp = await client.get_balance(creator); the minimum check
GetBalance ==
    /\ Running /\ Top.fn \in RpcFns /\ Top.pc = "balance"
    /\ \/ \E v \in Balances :
            LET f == Logged(Top, "get_balance", "ok", v)
            IN  stack' = SetTop(IF BelowMinimum(v)
                                THEN Raise(f, "InsufficientSOL")
                                ELSE [f EXCEPT !.pc = IF f.fn = "get_claims"
                                                      THEN "account" ELSE "build"])
       \/ stack' = SetTop(Raise(Logged(Top, "get_balance", "fail", 0), "RPCError"))
    /\ UNCHANGED <<handles, remoteBh, outcome>>

(***************************************************************************)
(* initialize / add_claim: build and the submit loop                       *)
(***************************************************************************)
InitializeBuild ==
    /\ Running /\ Top.fn = "initialize" /\ Top.pc = "build"
    /\ stack' = SetTop([Logged(Top, "build", "ok", 0) EXCEPT
                          !.instr = build_initialize_instruction(WalletPubkey, WalletPubkey),
                          !.attempt = 1, !.pc = "fetch"])
    /\ UNCHANGED <<handles, remoteBh, outcome>>

AddClaimBuild ==
    /\ Running /\ Top.fn = "add_claim" /\ Top.pc = "build"
    /\ stack' = SetTop(
         IF add_claim_hash_ok(Top.data_hash)
         THEN [Logged(Top, "build", "ok", 0) EXCEPT
                 !.instr = build_add_claim_instruction(WalletPubkey, Top.claim_id,
                                                       Top.json_url, Top.data_hash),
                 !.attempt = 1, !.pc = "fetch"]
         ELSE Raise(Logged(Top, "build", "fail", 0), "ValueError"))
    /\ UNCHANGED <<handles, remoteBh, outcome>>

\* for attempt in range(1, MAX_RETRIES + 1)
NextAttemptInRange(attempt) == attempt + 1 < MAX_RETRIES + 1

\* except Exception as e: retry on BlockhashNotFound while attempt < MAX_RETRIES
AttemptFailed(f, e) ==
    IF ShouldRetry(e, f.attempt) THEN [f EXCEPT !.pc = "sleep"] ELSE Raise(f, e)

SubmitFailures == {"BlockhashNotFound", "RPCError"}

\* blockhash_resp = await client.get_latest_blockhash()
FetchBlockhash ==
    /\ Running /\ Top.fn \in SubmitFns /\ Top.pc = "fetch"
    /\ \/ \E b \in {remoteBh, remoteBh + 1} :
            /\ b <= MaxBlockhash
            /\ remoteBh' = b
            /\ stack' = SetTop([Logged(Top, "get_latest_blockhash", "ok", b) EXCEPT
                                  !.blockhash = b, !.pc = "send"])
       \/ \E e \in SubmitFailures :
            /\ stack' = SetTop(AttemptFailed(Logged(Top, "get_latest_blockhash", e, 0), e))
            /\ UNCHANGED remoteBh
    /\ UNCHANGED <<handles, outcome>>

\* tx_sig = await client.send_transaction(tx, opts=opts); return tx_sig.value
SendTransaction ==
    /\ Running /\ Top.fn \in SubmitFns /\ Top.pc = "send"
    /\ \/ stack' = SetTop([Logged(Top, "send_transaction", "ok", Top.blockhash) EXCEPT
                             !.ret = "sig", !.pc = "finally"])
       \/ \E e \in SubmitFailures :
            stack' = SetTop(AttemptFailed(
                        Logged(Top, "send_transaction", e, Top.blockhash), e))
    /\ UNCHANGED <<handles, remoteBh, outcome>>

RetrySleepKeepingBlockhash ==
    /\ Running /\ Top.fn \in SubmitFns /\ Top.pc = "sleep"
    /\ LET f == [Logged(Top, "sleep", "ok", RETRY_DELAY) EXCEPT
                    !.delays = @ + 1, !.slept = @ + RETRY_DELAY]
       IN  stack' = SetTop(
             IF NextAttemptInRange(Top.attempt)
             THEN [f EXCEPT !.attempt = @ + 1, !.pc = "send"]
             ELSE [f EXCEPT !.ret = "None", !.pc = "finally"])
    /\ UNCHANGED <<handles, remoteBh, outcome>>

\* await asyncio.sleep(RETRY_DELAY); continue
RetrySleep ==
    /\ Running /\ Top.fn \in SubmitFns /\ Top.pc = "sleep"
    /\ LET f == [Logged(Top, "sleep", "ok", RETRY_DELAY) EXCEPT
                    !.delays = @ + 1, !.slept = @ + RETRY_DELAY]
       IN  stack' = SetTop(
             IF NextAttemptInRange(Top.attempt)
             THEN [f EXCEPT !.attempt = @ + 1, !.pc = "fetch"]
             \* the for loop is exhausted: the try block ends, the coroutine returns None
             ELSE [f EXCEPT !.ret = "None", !.pc = "finally"])
    /\ UNCHANGED <<handles, remoteBh, outcome>>

(***************************************************************************)
(* get_claims: fetching and decoding the registry account                  *)
(***************************************************************************)
\* a field read of the decoder: where, how wide, and whether a bounds check
\* of offset + width against len(data) came before it
FieldRead(field, off, width, checked) ==
    [field |-> field, off |-> off, width |-> width, checked |-> checked]

CallInitializeFrom(f) == Append(SetTop(f), NewFrame("initialize", <<>>, <<>>, <<>>))

\* account_resp = await client.get_account_info(pda)
GetAccountInfo ==
    /\ Running /\ Top.fn = "get_claims" /\ Top.pc = "account"
    /\ \/ stack' = CallInitializeFrom(
                     [Logged(Top, "get_account_info", "none", 0) EXCEPT !.pc = "ret_empty"])
       \/ \E buf \in AccountBuffers :
            stack' = SetTop([Logged(Top, "get_account_info", "ok", Len(buf)) EXCEPT
                               !.data = buf, !.pc = "header"])
       \/ stack' = SetTop(Raise(Logged(Top, "get_account_info", "fail", 0), "RPCError"))
    /\ UNCHANGED <<handles, remoteBh, outcome>>

\* the "Data Structure Breakdown" prints: discriminator, owner, pending owner
GetClaimsHeader ==
    /\ Running /\ Top.fn = "get_claims" /\ Top.pc = "header"
    /\ LET data == Top.data
           r1 == FieldRead("discriminator", 0, 8, FALSE)
           r2 == FieldRead("owner", 8, 32, FALSE)
           r3 == FieldRead("pending_tag", 40, 1, FALSE)
           r4 == FieldRead("pending_owner", 41, 32, FALSE)
       IN  stack' = SetTop(
             IF ~PubkeyOk(Slice(data, 8, 40))
             THEN Raise([Top EXCEPT !.reads = <<r1, r2>>, !.offset = 8], "ValueError")
             ELSE IF 40 >= Len(data)
             THEN Raise([Top EXCEPT !.reads = <<r1, r2, r3>>, !.offset = 40], "IndexError")
             ELSE IF data[40 + 1] = 0
             THEN [Top EXCEPT !.reads = <<r1, r2, r3>>, !.offset = 73, !.pc = "count"]
             ELSE IF ~PubkeyOk(Slice(data, 41, 73))
             THEN Raise([Top EXCEPT !.reads = <<r1, r2, r3, r4>>, !.offset = 40],
                        "ValueError")
             ELSE [Top EXCEPT !.reads = <<r1, r2, r3, r4>>, !.offset = 73, !.pc = "count"])
    /\ UNCHANGED <<handles, remoteBh, outcome>>

\* if num_claims > 1000
CountTooLarge(n) == n > CLAIM_COUNT_LIMIT

UrlTooLongInclusive(n) == n >= URL_LEN_LIMIT

\* if json_url_len > 1000
UrlTooLong(n) == n > URL_LEN_LIMIT

\* if offset + width > len(data)
TooShort(data, off, width) == off + width > Len(data)

\* the number of claims and its sanity check
GetClaimsCount ==
    /\ Running /\ Top.fn = "get_claims" /\ Top.pc = "count"
    /\ LET data == Top.data
           off == Top.offset
           n == U32FromLE(Slice(data, off, off + 4))
           f == [Top EXCEPT !.reads = Append(@, FieldRead("claim_count", off, 4, TRUE)),
                            !.num_claims = n, !.offset = off + 4]
       IN  stack' =
             IF TooShort(data, off, 4)
             THEN CallInitializeFrom([Top EXCEPT !.diag = Append(@, "TruncatedBuffer"),
                                                 !.pc = "ret_empty"])
             ELSE IF CountTooLarge(n)
             THEN CallInitializeFrom([f EXCEPT !.diag = Append(@, "CorruptAccount"),
                                               !.pc = "ret_empty"])
             ELSE SetTop([f EXCEPT !.i = 0, !.claims = <<>>,
                                   !.pc = IF n > 0 THEN "record" ELSE "return"])
    /\ UNCHANGED <<handles, remoteBh, outcome>>

\* one iteration of "for i in range(num_claims)"
DecodeRecord(f) ==
    LET data == f.data
        o0 == f.offset
        Break(g, d) == [g EXCEPT !.diag = Append(@, d), !.pc = "return"]
        Rd(g, field, off, width) ==
            [g EXCEPT !.reads = Append(@, FieldRead(field, off, width, TRUE)),
                      !.offset = off + width]
        Step(g) == [g EXCEPT !.i = @ + 1,
                             !.pc = IF g.i + 1 < g.num_claims THEN "record" ELSE "return"]
    IN
    IF TooShort(data, o0, 32) THEN Break(f, "TruncatedBuffer")
    ELSE
    LET claim_id_hash == Slice(data, o0, o0 + 32)
        f1 == Rd(f, "claim_id_hash", o0, 32)
        o1 == o0 + 32
    IN
    IF TooShort(data, o1, 4) THEN Break(f1, "TruncatedBuffer")
    ELSE
    LET json_url_len == U32FromLE(Slice(data, o1, o1 + 4))
        f2 == Rd(f1, "url_len", o1, 4)
        o2 == o1 + 4
    IN
    IF UrlTooLong(json_url_len) THEN Break(f2, "CorruptAccount")
    ELSE IF TooShort(data, o2, json_url_len) THEN Break(f2, "TruncatedBuffer")
    ELSE
    LET json_url == Utf8Decode(Slice(data, o2, o2 + json_url_len))
        f3 == Rd(f2, "url", o2, json_url_len)
        o3 == o2 + json_url_len
    IN
    IF json_url = Utf8Invalid
    THEN Step([f3 EXCEPT !.diag = Append(@, "Utf8Skip")])
    ELSE IF TooShort(data, o3, 32) THEN Break(f3, "TruncatedBuffer")
    ELSE
    LET data_hash == Slice(data, o3, o3 + 32)
        f4 == Rd(f3, "data_hash", o3, 32)
        o4 == o3 + 32
    IN
    IF TooShort(data, o4, 32) THEN Break(f4, "TruncatedBuffer")
    ELSE
    LET creator == Slice(data, o4, o4 + 32)
        f5 == Rd(f4, "creator", o4, 32)
        o5 == o4 + 32
    IN
    IF TooShort(data, o5, 8) THEN Break(f5, "TruncatedBuffer")
    ELSE
    LET created_at == I64FromLE(Slice(data, o5, o5 + 8))
        f6 == Rd(f5, "created_at", o5, 8)
    IN
    Step([f6 EXCEPT !.claims = Append(@,
            [claim_id_hash |-> Hex(claim_id_hash), json_url |-> json_url,
             data_hash |-> Hex(data_hash), creator |-> creator,
             created_at |-> created_at])])

GetClaimsRecord ==
    /\ Running /\ Top.fn = "get_claims" /\ Top.pc = "record"
    /\ stack' = SetTop(DecodeRecord(Top))
    /\ UNCHANGED <<handles, remoteBh, outcome>>

\* return claims
GetClaimsReturn ==
    /\ Running /\ Top.fn = "get_claims" /\ Top.pc = "return"
    /\ stack' = SetTop([Top EXCEPT !.ret = "list", !.pc = "finally"])
    /\ UNCHANGED <<handles, remoteBh, outcome>>

\* return [] once the nested initialize() has returned
GetClaimsReturnEmpty ==
    /\ Running /\ Top.fn = "get_claims" /\ Top.pc = "ret_empty"
    /\ stack' = SetTop([Top EXCEPT !.ret = "list", !.claims = <<>>, !.pc = "finally"])
    /\ UNCHANGED <<handles, remoteBh, outcome>>

\* build_get_claims_instruction(requester), called on its own
BuildGetClaimsInstruction ==
    /\ Running /\ Top.fn = "build_get_claims_instruction" /\ Top.pc = "start"
    /\ stack' = SetTop([Top EXCEPT !.instr = build_get_claims_instruction(WalletPubkey),
                                   !.ret = "instr", !.pc = "exit"])
    /\ UNCHANGED <<handles, remoteBh, outcome>>

(***************************************************************************)
(* main of test_runner.py                                                  *)
(***************************************************************************)
MainCallInitialize ==
    /\ Running /\ Top.fn = "main" /\ Top.pc = "start"
    /\ stack' = CallInitializeFrom([Top EXCEPT !.pc = "m_add"])
    /\ UNCHANGED <<handles, remoteBh, outcome>>

MainCallAddClaim ==
    /\ Running /\ Top.fn = "main" /\ Top.pc = "m_add"
    /\ stack' = Append(SetTop([Top EXCEPT !.pc = "m_get"]),
                       NewFrame("add_claim", MainClaimId, MainJsonUrl, MainDataHash))
    /\ UNCHANGED <<handles, remoteBh, outcome>>

MainCallGetClaims ==
    /\ Running /\ Top.fn = "main" /\ Top.pc = "m_get"
    /\ stack' = Append(SetTop([Top EXCEPT !.pc = "m_print"]),
                       NewFrame("get_claims", <<>>, <<>>, <<>>))
    /\ UNCHANGED <<handles, remoteBh, outcome>>

MainPrintClaims ==
    /\ Running /\ Top.fn = "main" /\ Top.pc = "m_print"
    /\ stack' = SetTop([Top EXCEPT !.ret = "None", !.pc = "exit"])
    /\ UNCHANGED <<handles, remoteBh, outcome>>

(***************************************************************************)
(* BioHackClient.add_claim of bio_hack.py                                  *)
(***************************************************************************)
\* if not claim_id / if not json_url / if len(data_hash) != 32
BhInputsValid(claim_id, json_url, data_hash) ==
    claim_id # <<>> /\ json_url # <<>> /\ Len(data_hash) = 32

BhAddClaimValidate ==
    /\ Running /\ Top.fn = "bh_add_claim" /\ Top.pc = "start"
    /\ stack' = SetTop(IF BhInputsValid(Top.claim_id, Top.json_url, Top.data_hash)
                       THEN [Top EXCEPT !.pc = "rpc"]
                       ELSE [Top EXCEPT !.exc = "ValueError", !.pc = "bh_except"])
    /\ UNCHANGED <<handles, remoteBh, outcome>>

BhErrorCodes == {"6000", "6001", "6002", "6003", "RPCError"}

\* tx = await self.program.rpc["add_claim"](...); return True
BhAddClaimRpc ==
    /\ Running /\ Top.fn = "bh_add_claim" /\ Top.pc = "rpc"
    /\ \/ stack' = SetTop([Logged(Top, "rpc_add_claim", "ok", 0) EXCEPT
                             !.ret = "True", !.pc = "exit"])
       \/ \E e \in BhErrorCodes :
            stack' = SetTop([Logged(Top, "rpc_add_claim", e, 0) EXCEPT
                               !.exc = e, !.pc = "bh_except"])
    /\ UNCHANGED <<handles, remoteBh, outcome>>

\* except Exception as e: print(...); return False
BhAddClaimExcept ==
    /\ Running /\ Top.fn = "bh_add_claim" /\ Top.pc = "bh_except"
    /\ stack' = SetTop([Top EXCEPT !.diag = Append(@, Top.exc), !.exc = "none",
                                   !.ret = "False", !.pc = "exit"])
    /\ UNCHANGED <<handles, remoteBh, outcome>>

(***************************************************************************)
(* Epilogue: except / finally / return                                     *)
(***************************************************************************)
ExceptReraiseSkippingFinally ==
    /\ Running /\ Top.pc = "except"
    /\ stack' = SetTop([Top EXCEPT !.pc = "exit"])
    /\ UNCHANGED <<handles, remoteBh, outcome>>

\* except Exception as e: print(...); raise
ExceptReraise ==
    /\ Running /\ Top.pc = "except"
    /\ stack' = SetTop([Top EXCEPT !.pc = IF Top.fn \in RpcFns THEN "finally" ELSE "exit"])
    /\ UNCHANGED <<handles, remoteBh, outcome>>

\* finally: await client.close()
FinallyClose ==
    /\ Running /\ Top.fn \in RpcFns /\ Top.pc = "finally"
    /\ IF Top.client = 0
       THEN /\ stack' = SetTop([Top EXCEPT !.exc = "UnboundLocalError", !.pc = "exit"])
            /\ UNCHANGED handles
       ELSE /\ handles' = [handles EXCEPT ![Top.client] = @ + 1]
            /\ stack' = SetTop([Top EXCEPT !.pc = "exit"])
    /\ UNCHANGED <<remoteBh, outcome>>

\* the coroutine ends: its value or its exception goes to the awaiting frame,
\* or, from the outermost frame, to whoever ran it
Exit ==
    /\ Running /\ Top.pc = "exit"
    /\ IF Len(stack) = 1
       THEN /\ stack' = <<>>
            /\ outcome' = [fn |-> Top.fn,
                           status |-> IF Top.exc = "none" THEN "returned" ELSE "raised",
                           exc |-> Top.exc, ret |-> Top.ret, claims |-> Top.claims]
       ELSE LET caller == stack[Len(stack) - 1]
                rest == SubSeq(stack, 1, Len(stack) - 2)
            IN  /\ stack' = Append(rest, IF Top.exc = "none" THEN caller
                                         ELSE Raise(caller, Top.exc))
                /\ UNCHANGED outcome
    /\ UNCHANGED <<handles, remoteBh>>

(***************************************************************************)
(* Callers                                                                 *)
(***************************************************************************)
Idle == stack = <<>> /\ outcome.status = "idle"

CallInitialize ==
    /\ Idle
    /\ stack' = <<NewFrame("initialize", <<>>, <<>>, <<>>)>>
    /\ outcome' = [outcome EXCEPT !.status = "running"]
    /\ UNCHANGED <<handles, remoteBh>>

CallAddClaim ==
    /\ Idle
    /\ \E c \in ClaimIds, u \in JsonUrls, h \in DataHashes :
         stack' = <<NewFrame("add_claim", c, u, h)>>
    /\ outcome' = [outcome EXCEPT !.status = "running"]
    /\ UNCHANGED <<handles, remoteBh>>

CallGetClaims ==
    /\ Idle
    /\ stack' = <<NewFrame("get_claims", <<>>, <<>>, <<>>)>>
    /\ outcome' = [outcome EXCEPT !.status = "running"]
    /\ UNCHANGED <<handles, remoteBh>>

CallMain ==
    /\ Idle
    /\ stack' = <<NewFrame("main", <<>>, <<>>, <<>>)>>
    /\ outcome' = [outcome EXCEPT !.status = "running"]
    /\ UNCHANGED <<handles, remoteBh>>

CallBhAddClaim ==
    /\ Idle
    /\ \E c \in ClaimIds, u \in JsonUrls, h \in DataHashes :
         stack' = <<NewFrame("bh_add_claim", c, u, h)>>
    /\ outcome' = [outcome EXCEPT !.status = "running"]
    /\ UNCHANGED <<handles, remoteBh>>

CallBuildGetClaimsInstruction ==
    /\ Idle
    /\ stack' = <<NewFrame("build_get_claims_instruction", <<>>, <<>>, <<>>)>>
    /\ outcome' = [outcome EXCEPT !.status = "running"]
    /\ UNCHANGED <<handles, remoteBh>>

Init ==
    /\ stack = <<>>
    /\ handles = <<>>
    /\ remoteBh = 0
    /\ outcome = [fn |-> "none", status |-> "idle", exc |-> "none", ret |-> "none",
                  claims |-> <<>>]

Next ==
    \/ CallInitialize
    \/ CallAddClaim
    \/ CallGetClaims
    \/ CallMain
    \/ CallBhAddClaim
    \/ CallBuildGetClaimsInstruction
    \/ BuildGetClaimsInstruction
    \/ GetAccountInfo
    \/ GetClaimsHeader
    \/ GetClaimsCount
    \/ GetClaimsRecord
    \/ GetClaimsReturn
    \/ GetClaimsReturnEmpty
    \/ MainCallInitialize
    \/ MainCallAddClaim
    \/ MainCallGetClaims
    \/ MainPrintClaims
    \/ BhAddClaimValidate
    \/ BhAddClaimRpc
    \/ BhAddClaimExcept
    \/ OpenClient
    \/ CheckConnected
    \/ LoadWallet
    \/ GetBalance
    \/ InitializeBuild
    \/ AddClaimBuild
    \/ FetchBlockhash
    \/ SendTransaction
    \/ RetrySleep
    \/ ExceptReraise
    \/ FinallyClose
    \/ Exit

Spec == Init /\ [][Next]_vars

(***************************************************************************)
(* The string codec on its own: encode_string, then the length-prefixed   *)
(* read of the record loop of get_claims                                   *)
(***************************************************************************)
\* 'h', NUL, e-acute, the euro sign, an emoji: UTF-8 widths 1, 1, 2, 3, 4
CodecAlphabet == {104, 0, 233, 8364, 128512}

\* strings whose UTF-8 encoding has at most 1000 bytes, the limit included
RoundTripStrings ==
    UNION {[1..n -> CodecAlphabet] : n \in 0..MaxStrLen}
      \cup {Fill(URL_LEN_LIMIT, 104), Fill(URL_LEN_LIMIT \div 2, 233)}

InitCodec ==
    /\ \E s \in RoundTripStrings : stack = <<NewFrame("codec", <<>>, s, <<>>)>>
    /\ handles = <<>>
    /\ remoteBh = 0
    /\ outcome = [fn |-> "codec", status |-> "running", exc |-> "none", ret |-> "none",
                  claims |-> <<>>]

\* encode_string(json_url), laid out as the url of the only record of a buffer
CodecEncode ==
    /\ Running /\ Top.fn = "codec" /\ Top.pc = "start"
    /\ stack' = SetTop([Top EXCEPT
                          !.data = Fill(32, 16) \o encode_string(Top.json_url)
                                     \o Fill(32, 32) \o WalletPubkey \o I64LE(5),
                          !.offset = 0, !.num_claims = 1, !.i = 0, !.pc = "encoded"])
    /\ UNCHANGED <<handles, remoteBh, outcome>>

\* the body of the record loop, applied to that buffer
CodecDecode ==
    /\ Running /\ Top.fn = "codec" /\ Top.pc = "encoded"
    /\ stack' = SetTop(DecodeRecord(Top))
    /\ UNCHANGED <<handles, remoteBh, outcome>>

NextCodec ==
    \/ CodecEncode
    \/ CodecDecode

SpecCodec == InitCodec /\ [][NextCodec]_vars

(***************************************************************************)
(* Properties                                                              *)
(***************************************************************************)
Frames == {stack[k] : k \in DOMAIN stack}
SubmitFrames == {f \in Frames : f.fn \in SubmitFns}
Events(f, op) == SelectSeq(f.log, LAMBDA e : e.op = op)
Count(f, op) == Len(Events(f, op))
CountRes(f, op, res) == Len(SelectSeq(f.log, LAMBDA e : e.op = op /\ e.res = res))
LastEvent(f) == f.log[Len(f.log)]
Ended(f) == f.pc \in {"except", "finally", "exit"}
\* every reference fetch so far succeeded, so every attempt reached its submission
FetchesOk(f) == CountRes(f, "get_latest_blockhash", "ok") = Count(f, "get_latest_blockhash")
StaleSends(f) == CountRes(f, "send_transaction", "BlockhashNotFound")

\* C1: when the first k submissions (k = 1 or 2) are answered BlockhashNotFound
\* the call goes on to a delay and a further attempt, and when attempt k+1 is
\* accepted it returns the signature after exactly k+1 submissions and k
\* delays of RETRY_DELAY each.
C1_StaleThenSuccess ==
    \A f \in SubmitFrames :
      FetchesOk(f) /\ StaleSends(f) \in {1, 2} =>
        /\ (LastEvent(f).op = "send_transaction" /\ LastEvent(f).res = "BlockhashNotFound")
             => f.pc = "sleep" /\ f.exc = "none"
        /\ f.ret = "sig" =>
             /\ Count(f, "send_transaction") = StaleSends(f) + 1
             /\ f.delays = StaleSends(f)
             /\ Count(f, "sleep") = StaleSends(f)
             /\ f.slept = StaleSends(f) * RETRY_DELAY
             /\ f.exc = "none"
             /\ f.pc \in {"finally", "exit"}

\* stale, stale, success: 3 submissions and 2 delays, about to return
C1_Witness ==
    \E f \in SubmitFrames :
      /\ f.pc = "exit" /\ f.ret = "sig" /\ FetchesOk(f)
      /\ StaleSends(f) = 2 /\ Count(f, "send_transaction") = 3 /\ f.delays = 2

\* C2: a failure of a fetch or of a submission that is not BlockhashNotFound
\* is the last thing the call does with the remote service: it is raised to
\* the caller with no delay, fetch or submission after it.
C2_NonStaleIsFatal ==
    \A f \in SubmitFrames :
      \A k \in DOMAIN f.log :
        (f.log[k].op \in {"get_latest_blockhash", "send_transaction"}
           /\ f.log[k].res = "RPCError") =>
          /\ k = Len(f.log)
          /\ f.exc = "RPCError"
          /\ Ended(f)
          /\ f.ret = "none"

C2_Witness ==
    \E f \in SubmitFrames :
      /\ f.pc = "exit" /\ f.exc = "RPCError"
      /\ LastEvent(f).op = "send_transaction" /\ LastEvent(f).res = "RPCError"
      /\ f.delays = 1

\* C3: one call makes at most MAX_RETRIES submissions and MAX_RETRIES - 1
\* delays; three stale submissions surface BlockhashNotFound with no delay
\* after the third; the call ends either with a signature or with a failure.
C3_BoundedRetries ==
    \A f \in SubmitFrames :
      /\ f.attempt <= MAX_RETRIES
      /\ Count(f, "send_transaction") <= MAX_RETRIES
      /\ Count(f, "get_latest_blockhash") <= MAX_RETRIES
      /\ f.delays <= MAX_RETRIES - 1
      /\ Count(f, "sleep") <= MAX_RETRIES - 1
      /\ StaleSends(f) = MAX_RETRIES =>
           /\ LastEvent(f).op = "send_transaction"
           /\ f.exc = "BlockhashNotFound"
           /\ Ended(f)
      /\ f.pc = "exit" => (f.ret = "sig" /\ f.exc = "none") \/ (f.ret = "none" /\ f.exc # "none")

C3_Witness ==
    \E f \in SubmitFrames :
      /\ f.pc = "exit" /\ StaleSends(f) = MAX_RETRIES
      /\ f.exc = "BlockhashNotFound" /\ f.delays = MAX_RETRIES - 1

\* C4: in initialize and add_claim a balance below 5000 lamports aborts the
\* call with the insufficient-funds failure before any build, fetch or
\* submission; a balance of 5000 lamports or more takes the call to the build.
C4_BalanceGate ==
    \A f \in SubmitFrames :
      \A k \in DOMAIN f.log :
        (f.log[k].op = "get_balance" /\ f.log[k].res = "ok") =>
          IF f.log[k].val < 5000
          THEN /\ f.exc = "InsufficientSOL" /\ Ended(f) /\ f.ret = "none"
               /\ k = Len(f.log)
               /\ ~f.instr.built
               /\ Count(f, "build") = 0
               /\ Count(f, "get_latest_blockhash") = 0
               /\ Count(f, "send_transaction") = 0
          ELSE /\ f.exc # "InsufficientSOL"
               /\ f.pc = "build" \/ Count(f, "build") = 1

C4_Witness ==
    \E f \in SubmitFrames :
      /\ f.pc = "exit" /\ f.exc = "InsufficientSOL"
      /\ LastEvent(f).op = "get_balance" /\ LastEvent(f).val = 4999

AddClaimFrames == {f \in Frames : f.fn \in {"add_claim", "bh_add_claim"}}
GetClaimsFrames == {f \in Frames : f.fn = "get_claims"}
RpcFrames == {f \in Frames : f.fn \in RpcFns}
InDiag(f, d) == \E k \in DOMAIN f.diag : f.diag[k] = d
Fetched(f) == CountRes(f, "get_account_info", "ok") = 1

\* C5: both add_claim entry points reject an empty claim_id, an empty json_url
\* or a data_hash that is not 32 bytes long with a validation failure, before
\* any call of the remote service and without building an instruction.
C5_ValidatedBeforeRemote ==
    \A f \in AddClaimFrames :
      (f.claim_id = <<>> \/ f.json_url = <<>> \/ Len(f.data_hash) # 32) =>
        /\ f.log = <<>>
        /\ ~f.instr.built
        /\ f.pc = "exit" => f.exc = "ValueError" \/ InDiag(f, "ValueError")

\* C6: a claim_count above 1000 gives get_claims no claims and the
\* CorruptAccount diagnostic, no read past the claim_count field, and no
\* further action on the remote service, by itself or by a call it makes.
C6_CorruptCountIsLocal ==
    \A k \in DOMAIN stack :
      (stack[k].fn = "get_claims" /\ Fetched(stack[k])
         /\ stack[k].num_claims > CLAIM_COUNT_LIMIT) =>
        /\ stack[k].claims = <<>>
        /\ InDiag(stack[k], "CorruptAccount")
        /\ \A r \in DOMAIN stack[k].reads :
             stack[k].reads[r].off + stack[k].reads[r].width <= 77
        /\ LastEvent(stack[k]).op = "get_account_info"
        /\ \A j \in DOMAIN stack : j > k => stack[j].log = <<>>
        /\ stack[k].pc = "exit" => stack[k].exc = "none" /\ stack[k].ret = "list"

\* C7: every field read of the decoder comes after a bounds check and lies
\* inside the buffer, and no buffer makes the decoder fail with an index or
\* a short-slice error.
C7_EveryReadChecked ==
    \A f \in GetClaimsFrames :
      /\ \A r \in DOMAIN f.reads :
           f.reads[r].checked /\ f.reads[r].off + f.reads[r].width <= Len(f.data)
      /\ f.exc \notin {"IndexError", "ValueError"}

\* C8: once the account buffer is fetched, get_claims never ends in a raised
\* failure: it returns a list of claims.
C8_DecodeNeverRaises ==
    \A f \in GetClaimsFrames :
      Fetched(f) => /\ f.exc = "none"
                    /\ f.pc = "exit" => f.ret = "list"

C10_NoEscapingFailure ==
    /\ outcome.status # "raised"
    /\ \A f \in Frames : f.pc = "exit" => f.exc = "none"

BuiltFrames == {f \in Frames : f.instr.built}
Signers(ins) == {k \in DOMAIN ins.accounts : ins.accounts[k].is_signer}
\* the length prefix of a string of fewer than 256 one-byte characters
AsciiPrefixed(str) == <<Len(str), 0, 0, 0>> \o str

\* C11: each builder emits its account template in the documented order and
\* flags, registry first and exactly one signer, and its data is the
\* operation's 8-byte discriminator followed by the documented payload.
C11_AccountTemplates ==
    /\ \A f \in BuiltFrames :
         /\ f.instr.accounts[1].pubkey = PdaPubkey
         /\ ~f.instr.accounts[1].is_signer
         /\ Cardinality(Signers(f.instr)) = 1
         /\ f.fn = "initialize" =>
              /\ f.instr.accounts =
                   << [pubkey |-> PdaPubkey, is_signer |-> FALSE, is_writable |-> TRUE],
                      [pubkey |-> WalletPubkey, is_signer |-> TRUE, is_writable |-> TRUE],
                      [pubkey |-> SystemProgramPubkey, is_signer |-> FALSE,
                       is_writable |-> FALSE] >>
              /\ f.instr.data = <<175, 175, 109, 31, 13, 152, 155, 237>> \o <<1>>
                                  \o WalletPubkey
         /\ f.fn = "add_claim" =>
              /\ f.instr.accounts =
                   << [pubkey |-> PdaPubkey, is_signer |-> FALSE, is_writable |-> TRUE],
                      [pubkey |-> WalletPubkey, is_signer |-> TRUE, is_writable |-> TRUE] >>
              /\ f.instr.data = <<70, 114, 85, 106, 66, 244, 46, 99>>
                                  \o AsciiPrefixed(f.claim_id) \o AsciiPrefixed(f.json_url)
                                  \o f.data_hash
              /\ Len(f.data_hash) = 32
         /\ f.fn = "build_get_claims_instruction" =>
              /\ f.instr.accounts =
                   << [pubkey |-> PdaPubkey, is_signer |-> FALSE, is_writable |-> FALSE],
                      [pubkey |-> WalletPubkey, is_signer |-> TRUE, is_writable |-> TRUE] >>
              /\ f.instr.data = <<137, 77, 151, 53, 39, 5, 110, 188>>
    /\ \A f, g \in BuiltFrames :
         f.fn # g.fn => SubSeq(f.instr.data, 1, 8) # SubSeq(g.instr.data, 1, 8)

\* the get_claims template has been built
C11_Witness ==
    \E f \in BuiltFrames :
      f.fn = "build_get_claims_instruction" /\ f.pc = "exit" /\ Len(f.instr.accounts) = 2

CodecFrames == {f \in Frames : f.fn = "codec"}

\* the number of bytes UTF-8 needs for a code point
Utf8Width(c) == IF c < 128 THEN 1 ELSE IF c < 2048 THEN 2 ELSE IF c < 65536 THEN 3 ELSE 4

RECURSIVE ByteLen(_)
ByteLen(s) ==
    IF s = <<>> THEN 0
    ELSE IF Len(s) = 1 THEN Utf8Width(s[1])
    ELSE LET h == Len(s) \div 2
         IN  ByteLen(SubSeq(s, 1, h)) + ByteLen(SubSeq(s, h + 1, Len(s)))

ReadsOf(f, field) == SelectSeq(f.reads, LAMBDA r : r.field = field)

\* C12: for every string s of at most 1000 UTF-8 bytes, the length-prefixed
\* string read of get_claims applied to encode_string(s) returns s and moves
\* the cursor by exactly 4 + the byte length of s; encode_string of the empty
\* string is exactly the bytes 0,0,0,0 and reads back as the empty string.
C12_StringRoundTrip ==
    \A f \in CodecFrames :
      /\ (f.pc # "start" /\ f.json_url = <<>>) =>
           Slice(f.data, 32, Len(f.data) - 72) = <<0, 0, 0, 0>>
      /\ f.pc = "return" =>
           /\ f.diag = <<>>
           /\ Len(f.claims) = 1
           /\ f.claims[1].json_url = f.json_url
           /\ ReadsOf(f, "url_len") = <<FieldRead("url_len", 32, 4, TRUE)>>
           /\ ReadsOf(f, "url") = <<FieldRead("url", 36, ByteLen(f.json_url), TRUE)>>
           /\ Len(ReadsOf(f, "data_hash")) = 1
           /\ ReadsOf(f, "data_hash")[1].off = 32 + 4 + ByteLen(f.json_url)

\* a string of exactly 1000 UTF-8 bytes has been encoded and read back
C12_Witness ==
    \E f \in CodecFrames :
      /\ f.pc = "return"
      /\ ByteLen(f.json_url) = URL_LEN_LIMIT
      /\ Len(f.claims) = 1

(***************************************************************************)
(* The record layout of a buffer, walked field by whole field              *)
(***************************************************************************)
\* where claim_count lies: after the 1-byte or 33-byte pending_owner
TrueCountOffset(data) == IF data[41] = 0 THEN 41 ELSE 73

\* the record at offset o is all there, with a url_len within the limit
WholeRecord(data, o) ==
    /\ o + 36 <= Len(data)
    /\ LET n == U32FromLE(Slice(data, o + 32, o + 36))
       IN  n <= URL_LEN_LIMIT /\ o + 36 + n + 72 <= Len(data)

RecordEnd(data, o) == o + 36 + U32FromLE(Slice(data, o + 32, o + 36)) + 72

\* offsets of records 1, 2, ... as far as the records before them are whole
RECURSIVE RecordStarts(_, _, _)
RecordStarts(data, o, left) ==
    IF left = 0 THEN <<>>
    ELSE IF ~WholeRecord(data, o) THEN <<o>>
    ELSE <<o>> \o RecordStarts(data, RecordEnd(data, o), left - 1)

TrueStarts(data) ==
    LET c == TrueCountOffset(data)
    IN  RecordStarts(data, c + 4, U32FromLE(Slice(data, c, c + 4)))

UrlAt(data, o) ==
    Utf8Decode(Slice(data, o + 36, o + 36 + U32FromLE(Slice(data, o + 32, o + 36))))

ClaimAt(data, o) ==
    LET e == RecordEnd(data, o)
    IN  [claim_id_hash |-> Hex(Slice(data, o, o + 32)),
         json_url |-> UrlAt(data, o),
         data_hash |-> Hex(Slice(data, e - 72, e - 40)),
         creator |-> Slice(data, e - 40, e - 8),
         created_at |-> I64FromLE(Slice(data, e - 8, e))]

\* the whole records with a UTF-8 url, in buffer order, up to the first record
\* that is cut short or declares a url_len above the limit
ExpectedClaims(data) ==
    LET starts == TrueStarts(data)
        good == SelectSeq(starts, LAMBDA o : WholeRecord(data, o)
                                              /\ UrlAt(data, o) # Utf8Invalid)
    IN  [k \in 1..Len(good) |-> ClaimAt(data, good[k])]

\* get_claims has decoded the records of a buffer of at least a whole header
Decoded(f) ==
    /\ f.fn = "get_claims" /\ f.pc \in {"finally", "exit"} /\ f.exc = "none"
    /\ Len(f.data) >= 41
    /\ Len(f.data) >= TrueCountOffset(f.data) + 4
    /\ U32FromLE(Slice(f.data, TrueCountOffset(f.data), TrueCountOffset(f.data) + 4))
         <= CLAIM_COUNT_LIMIT

\* C13: when the url bytes of record k are not valid UTF-8, get_claims skips
\* only record k: every later record is read at its true position, the byte
\* after the whole layout of record k, and the returned list is the decoding
\* of the buffer with record k removed.
C13_SkipsOnlyBadRecord ==
    \A f \in GetClaimsFrames :
      (Decoded(f) /\ f.data[41] = 1 /\ InDiag(f, "Utf8Skip")) =>
        /\ \A r \in DOMAIN f.reads :
             f.reads[r].field = "claim_id_hash" =>
               \E k \in DOMAIN TrueStarts(f.data) : TrueStarts(f.data)[k] = f.reads[r].off
        /\ f.claims = ExpectedClaims(f.data)

IsFetch(e) == e.op = "get_latest_blockhash"
IsSend(e) == e.op = "send_transaction"

\* C14: every submission attempt of initialize and add_claim cites a blockhash
\* obtained by a fetch made after the previous attempt failed and its delay
\* elapsed: there are as many fetches as attempts, each submission comes
\* right after the fetch whose value it cites, every fetch but the first
\* comes right after a delay that follows a failed attempt, and no fetched
\* value serves two submissions.
C14_FreshBlockhashPerAttempt ==
    \A f \in SubmitFrames :
      LET log == f.log
          first == CHOOSE j \in DOMAIN log : IsFetch(log[j]) /\ \A i \in 1..(j - 1) : ~IsFetch(log[i])
      IN
      /\ Count(f, "get_latest_blockhash") = IF f.pc = "fetch" THEN f.attempt - 1 ELSE f.attempt
      /\ Count(f, "send_transaction") <= Count(f, "get_latest_blockhash")
      /\ \A j \in DOMAIN log :
           IsSend(log[j]) =>
             /\ j > 1 /\ IsFetch(log[j - 1]) /\ log[j - 1].res = "ok"
             /\ log[j].val = log[j - 1].val
      /\ \A j \in DOMAIN log :
           (IsFetch(log[j]) /\ j # first) =>
             /\ j > 2 /\ log[j - 1].op = "sleep" /\ log[j - 1].val = RETRY_DELAY
             /\ (IsSend(log[j - 2]) \/ IsFetch(log[j - 2]))
             /\ log[j - 2].res = "BlockhashNotFound"
      /\ f.pc = "send" => IsFetch(LastEvent(f)) /\ LastEvent(f).val = f.blockhash

\* the third attempt has been submitted, after two stale submissions
C14_Witness ==
    \E f \in SubmitFrames :
      /\ Count(f, "send_transaction") = MAX_RETRIES
      /\ Count(f, "get_latest_blockhash") = MAX_RETRIES
      /\ f.attempt = MAX_RETRIES
      /\ IsSend(LastEvent(f))

TrueCount(data) ==
    U32FromLE(Slice(data, TrueCountOffset(data), TrueCountOffset(data) + 4))

\* the walk of the layout ends at a record that is cut short or declares a
\* url_len above the limit
StopsInRecord(data) ==
    LET starts == TrueStarts(data)
    IN  starts # <<>> /\ ~WholeRecord(data, starts[Len(starts)])

\* a is b with some elements left out
RECURSIVE IsSubseq(_, _)
IsSubseq(a, b) ==
    IF a = <<>> THEN TRUE
    ELSE IF b = <<>> THEN FALSE
    ELSE IF Head(a) = Head(b) THEN IsSubseq(Tail(a), Tail(b))
    ELSE IsSubseq(a, Tail(b))

\* C15: when record k declares a url_len above 1000, or the buffer ends
\* inside one of its fields, get_claims stops there: it returns exactly the
\* well-formed records before k, in buffer order, and nothing from record k
\* on; in every case it returns at most claim_count claims, in the relative
\* order they have in the buffer.
C15_StopsAtBadRecord ==
    \A f \in GetClaimsFrames :
      Decoded(f) =>
        /\ StopsInRecord(f.data) => f.claims = ExpectedClaims(f.data)
        /\ Len(f.claims) <= TrueCount(f.data)
        /\ IsSubseq(f.claims, ExpectedClaims(f.data))

\* get_account_info answered that the registry account does not exist
Absent(f) == CountRes(f, "get_account_info", "none") = 1

\* a whole header, a claim_count within the limit, and that many whole
\* records with UTF-8 urls
WellFormed(data) ==
    /\ Len(data) >= 41
    /\ data[41] \in {0, 1}
    /\ Len(data) >= TrueCountOffset(data) + 4
    /\ TrueCount(data) <= CLAIM_COUNT_LIMIT
    /\ Len(TrueStarts(data)) = TrueCount(data)
    /\ \A k \in DOMAIN TrueStarts(data) :
         /\ WholeRecord(data, TrueStarts(data)[k])
         /\ UrlAt(data, TrueStarts(data)[k]) # Utf8Invalid

\* C16: with the registry account absent, get_claims runs a complete nested
\* initialize and returns the empty list only after it returned a submission
\* identifier; a failure of the nested initialize ends get_claims with that
\* failure and no list; with a present, well-formed account get_claims never
\* submits a transaction.
C16_InitializeOnlyWhenAbsent ==
    \A k \in DOMAIN stack :
      stack[k].fn = "get_claims" =>
        /\ Absent(stack[k]) =>
             /\ stack[k].pc \in {"ret_empty", "except", "finally", "exit"}
             /\ stack[k].claims = <<>>
             /\ stack[k].exc # "none" => stack[k].ret = "none"
             /\ (stack[k].pc = "ret_empty" /\ k < Len(stack)) =>
                  /\ Len(stack) = k + 1
                  /\ stack[k + 1].fn = "initialize"
                  /\ Count(stack[k + 1], "send_transaction") <= MAX_RETRIES
                  /\ (stack[k + 1].pc = "exit" /\ stack[k + 1].exc = "none") =>
                       /\ stack[k + 1].ret = "sig"
                       /\ CountRes(stack[k + 1], "is_connected", "ok") = 1
                       /\ CountRes(stack[k + 1], "get_balance", "ok") = 1
                       /\ LastEvent(stack[k + 1]) = Ev("send_transaction", "ok",
                                                       stack[k + 1].blockhash)
        /\ (Fetched(stack[k]) /\ WellFormed(stack[k].data)) =>
             \A j \in DOMAIN stack : j > k => Count(stack[j], "send_transaction") = 0

\* the step that ends a nested initialize hands get_claims either the way to
\* "return []", after a submission identifier, or the failure of initialize
C16_NestedInitializeReturn ==
    [][\A k \in DOMAIN stack :
         (/\ stack[k].fn = "get_claims" /\ Absent(stack[k])
          /\ Len(stack) = k + 1 /\ Len(stack') = k) =>
           IF stack[k + 1].exc = "none"
           THEN /\ stack[k + 1].ret = "sig"
                /\ stack'[k] = stack[k]
                /\ stack[k].pc = "ret_empty"
           ELSE stack'[k] = Raise(stack[k], stack[k + 1].exc)]_vars

====
